---- MODULE Spec2Model ----
(***************************************************************************)
(* A model of app/src/main/python/dsp_analyzer.py: the WAV decoder         *)
(* read_wav, the estimators, the rule-based classifier classify_noise and  *)
(* the fail-safe pipeline analyze_audio.                                   *)
(*                                                                         *)
(* Number representations                                                  *)
(*   - int16 PCM samples are integers; a file's data chunk is a sequence   *)
(*     of bytes 0..255 and np.frombuffer(.., int16) is modelled by the     *)
(*     little-endian two's complement decoding it performs.                *)
(*   - a normalised sample int16/32768.0 is exact in float32 and is kept   *)
(*     as the pair <<numerator, 32768>>.                                   *)
(*   - crack_score and confidence are IEEE-754 doubles in [0, 2), kept as  *)
(*     the exact integer value * 2^55 split in two 28-bit limbs <<hi, lo>>,*)
(*     added with round-to-nearest-even as the hardware adds them.         *)
(*   - frequency is in Hz, power_db in dB (integers), surface_tension in   *)
(*     hundredths.  The value of 20*log10(rms) is drawn from the levels    *)
(*     the clip's peak amplitude and length allow, and the FFT results     *)
(*     from the bins the sample rate allows; both sets straddle every      *)
(*     threshold of the code.                                              *)
(***************************************************************************)
EXTENDS Integers, Sequences, FiniteSets, TLC

VARIABLES
    pc,              \* control location of the analyze_audio call
    file,            \* the file at wav_path
    handle,          \* the wave handle: "none", "open", "closed"
    n_channels, sample_width, framerate, n_frames, raw_data,  \* read_wav locals
    wsamples,        \* read_wav's local `samples`
    samples, sample_rate,                                     \* analyze_audio locals
    power_db, frequency, surface_tension, noise_status, confidence,
    ran,             \* the stages invoked by this call
    failed,          \* the operation that raised during this call, or "none"
    result,          \* <<>> until analyze_audio returns, then <<record>>
    cin, cout        \* arguments and result of a standalone classify_noise call

vars == <<pc, file, handle, n_channels, sample_width, framerate, n_frames,
          raw_data, wsamples, samples, sample_rate, power_db, frequency,
          surface_tension, noise_status, confidence, ran, failed, result,
          cin, cout>>

-----------------------------------------------------------------------------
(* IEEE-754 double arithmetic on values in [0, 2): v is kept as v * 2^55.  *)

Limb == 2^28

Dbl(hi, lo) == <<hi, lo>>

DNorm(hi, lo) == <<hi + (lo \div Limb), lo % Limb>>

DLess(a, b) == a[1] < b[1] \/ (a[1] = b[1] /\ a[2] < b[2])

DGeq(a, b) == ~DLess(a, b)

\* spacing of the doubles around x, in units of 2^-55 (53-bit significand)
DGrain(x) ==
    IF x[1] < 2^25 THEN 1
    ELSE IF x[1] < 2^26 THEN 2
    ELSE IF x[1] < 2^27 THEN 4
    ELSE 8

\* round-to-nearest, ties-to-even
DRound(x) ==
    LET g    == DGrain(x)
        r    == x[2] % g
        down == <<x[1], x[2] - r>>
        up   == DNorm(x[1], x[2] - r + g)
        odd  == ((x[2] \div g) % 2) = 1
    IN  IF 2 * r < g THEN down
        ELSE IF 2 * r > g THEN up
        ELSE IF odd THEN up ELSE down

\* a + b on doubles: the exact sum, computed once, then rounded
DAdd(a, b) ==
    CHOOSE r \in {DRound(x) : x \in {DNorm(a[1] + b[1], a[2] + b[2])}} : TRUE

\* variant: the cap is lost
DMinUncapped(a, b) == b

\* min(a, b) of Python: b only if b < a
DMin(a, b) == IF DLess(b, a) THEN b ELSE a

\* the double nearest each decimal literal of the source
D0_0  == Dbl(0, 0)
D0_15 == Dbl(20132659, 53687091)     \* 0x1.3333333333333p-3
D0_2  == Dbl(26843545, 161061274)    \* 0x1.999999999999ap-3
D0_3  == Dbl(40265318, 107374182)    \* 0x1.3333333333333p-2
D0_4  == Dbl(53687091, 53687092)     \* 0x1.999999999999ap-2
D0_5  == Dbl(67108864, 0)            \* 0x1.0p-1
D0_6  == Dbl(80530636, 214748364)    \* 0x1.3333333333333p-1
D0_65 == Dbl(87241523, 53687092)     \* 0x1.4cccccccccccdp-1
D0_8  == Dbl(107374182, 107374184)   \* 0x1.999999999999ap-1
D0_95 == Dbl(127506841, 161061272)   \* 0x1.e666666666666p-1

-----------------------------------------------------------------------------
(* classify_noise                                                          *)

FreqHigh == 2000
FreqMid == 1000
FlatHigh == 70
FlatMid == 50
PowerStrong == -15
PowerMedium == -25
ClassifierWeakDb == -40

\* variant: `frequency >= 2000` in place of `frequency > 2000`
CrackScoreInclusive(f, p, st) ==
    LET s0 == D0_0
        s1 == IF f >= FreqHigh THEN DAdd(s0, D0_3)
              ELSE IF f > FreqMid THEN DAdd(s0, D0_15)
              ELSE s0
        s2 == IF st > FlatHigh THEN DAdd(s1, D0_4)
              ELSE IF st > FlatMid THEN DAdd(s1, D0_2)
              ELSE s1
        s3 == IF p > PowerStrong THEN DAdd(s2, D0_3)
              ELSE IF p > PowerMedium THEN DAdd(s2, D0_15)
              ELSE s2
    IN  s3

\* crack_score = 0.0, then the three `+=` in source order
CrackScore(f, p, st) ==
    LET s0 == D0_0
        s1 == IF f > FreqHigh THEN DAdd(s0, D0_3)
              ELSE IF f > FreqMid THEN DAdd(s0, D0_15)
              ELSE s0
        s2 == IF st > FlatHigh THEN DAdd(s1, D0_4)
              ELSE IF st > FlatMid THEN DAdd(s1, D0_2)
              ELSE s1
        s3 == IF p > PowerStrong THEN DAdd(s2, D0_3)
              ELSE IF p > PowerMedium THEN DAdd(s2, D0_15)
              ELSE s2
    IN  s3

\* variant: the weak signal check is missing
classify_noise_unguarded(f, p, st) ==
    LET crack_score == CrackScore(f, p, st)
    IN  IF DGeq(crack_score, D0_6) THEN <<"CRACK", DMin(D0_95, crack_score)>>
        ELSE IF DGeq(crack_score, D0_3) THEN <<"NORMAL", D0_65>>
        ELSE <<"NORMAL", D0_8>>

classify_noise(f, p, st) ==
    IF p < ClassifierWeakDb THEN <<"NOISE", D0_6>>
    ELSE LET crack_score == CrackScore(f, p, st)
         IN  IF DGeq(crack_score, D0_6) THEN <<"CRACK", DMin(D0_95, crack_score)>>
             ELSE IF DGeq(crack_score, D0_3) THEN <<"NORMAL", D0_65>>
             ELSE <<"NORMAL", D0_8>>

-----------------------------------------------------------------------------
(* The WAV files a call may be given                                       *)

MaxPatLen == 2
FreqMinSamples == 100
FlatMinSamples == 100
FullScale == 32768

SampleVals == {-32768, 0, 184, 2049}

Pats == UNION {[1..n -> SampleVals] : n \in 1..MaxPatLen}

RepCounts == {0, 1, FreqMinSamples - 1, FreqMinSamples}

Repeat(p, r) == [i \in 1..(Len(p) * r) |-> p[((i - 1) % Len(p)) + 1]]

\* the two bytes of a signed 16-bit little-endian PCM sample
Int16LE(w) ==
    LET u == IF w < 0 THEN w + 65536 ELSE w
    IN  <<u % 256, u \div 256>>

Encode(ws) ==
    [i \in 1..(2 * Len(ws)) |-> Int16LE(ws[(i + 1) \div 2])[((i - 1) % 2) + 1]]

Rates == {0, 40, 8000}

\* a file wave.open rejects: missing, empty, not RIFF/WAVE, corrupt header
BadFile ==
    [ok |-> FALSE, nchannels |-> 0, sampwidth |-> 0, framerate |-> 0,
     nframes |-> 0, data |-> <<>>, pcm |-> <<>>]

\* a parsable file: the header's frame count is the data chunk's declared
\* size in frames; `cut` bytes of the declared data are missing at the end.
\* pcm records the sample values the data encodes (never read by the code)
MkFile(c, w, r, words, cut) ==
    LET full == Encode(words)
        have == IF Len(full) >= cut THEN Len(full) - cut ELSE 0
    IN  [ok |-> TRUE, nchannels |-> c, sampwidth |-> w, framerate |-> r,
         nframes |-> Len(full) \div (c * w),
         data |-> SubSeq(full, 1, have), pcm |-> words]

Files ==
    {BadFile}
    \cup {MkFile(c, 2, r, Repeat(p, k), cut) :
             c \in {1, 2}, r \in Rates, p \in Pats, k \in RepCounts, cut \in {0, 1}}
    \cup {MkFile(c, w, 8000, Repeat(p, 1), 0) :
             c \in {1, 2}, w \in {1, 4}, p \in Pats}

-----------------------------------------------------------------------------
(* read_wav helpers                                                        *)

\* wav.readframes(n): at most n whole frames of what the file holds
readframes(f, n) ==
    LET want == n * f.nchannels * f.sampwidth
    IN  SubSeq(f.data, 1, IF want < Len(f.data) THEN want ELSE Len(f.data))

\* variant: 8-bit data is accepted too
SupportedWidthAny(w) == w \in {1, 2}

\* `if sample_width == 2`: 16-bit PCM only
SupportedWidth(w) == w = 2

\* one int16 from its two little-endian bytes
Int16(lo, hi) ==
    LET u == lo + 256 * hi
    IN  IF u >= 32768 THEN u - 65536 ELSE u

\* np.frombuffer(raw_data, dtype=np.int16); the caller checks the length
frombuffer(raw) ==
    [i \in 1..(Len(raw) \div 2) |-> Int16(raw[2 * i - 1], raw[2 * i])]

\* variant: samples[1::2], the right channel
EveryOtherRight(s) == [i \in 1..(Len(s) \div 2) |-> s[2 * i]]

\* samples[::2]
EveryOther(s) == [i \in 1..((Len(s) + 1) \div 2) |-> s[2 * i - 1]]

\* samples.astype(np.float32) / 32768.0
Normalize(s) == [i \in 1..Len(s) |-> <<s[i], FullScale>>]

-----------------------------------------------------------------------------
(* Estimators.  Each returns the set of its possible outcomes.             *)

Ret(v) == <<"ret", v>>
Raise == <<"raise", 0>>

PowerFloor == -100
WeakGateDb == -50

\* variant: `power_db <= -50`
IsWeakInclusive(p) == p <= WeakGateDb

\* `if power_db < -50`
IsWeak(p) == p < WeakGateDb

AllZero(s) == \A i \in 1..Len(s) : s[i][1] = 0

\* values of 20 * log10(rms) that the model distinguishes
LogValues == {-51, -50, -45, -40, -25, -20, -15, -10, 0}

\* 32768 * 10^(v/20) for v = -52 .. 1: the rms, in int16 units, of v dB
RmsTable ==
    << 82, 92, 104, 116, 130, 146, 164, 184, 207,
       232, 260, 292, 328, 368, 413, 463, 519, 583,
       654, 734, 823, 924, 1036, 1163, 1305, 1464, 1642,
       1843, 2068, 2320, 2603, 2920, 3277, 3677, 4125, 4629,
       5193, 5827, 6538, 7336, 8231, 9235, 10362, 11627, 13045,
       14637, 16423, 18427, 20675, 23198, 26029, 29205, 32768, 36766 >>

RmsAt(v) == RmsTable[v + 53]

Abs(x) == IF x < 0 THEN -x ELSE x

\* the largest |sample|, in int16 units
Peak(s) ==
    LET mags == {Abs(s[i][1]) : i \in 1..Len(s)}
    IN  CHOOSE m \in mags : \A k \in mags : k <= m

\* the least k with k * k >= n
SqrtCeil(n) == CHOOSE k \in 0..n : k * k >= n /\ \A j \in 0..(k - 1) : j * j < n

\* np.sqrt(np.mean(samples ** 2)) lies between peak / sqrt(n) and peak, so
\* 20 * np.log10(rms) is one of the values within 1 dB of that range
LogOfRms(s) ==
    {v \in LogValues : /\ RmsAt(v - 1) <= Peak(s)
                       /\ Peak(s) <= RmsAt(v + 1) * SqrtCeil(Len(s))}

\* rms < 1e-10 exactly when every sample is 0: the least non-zero rms of n
\* int16 samples is 2^-15 / sqrt(n)
calculate_power_db(s) ==
    IF Len(s) = 0 THEN {Ret(PowerFloor)}
    ELSE IF AllZero(s) THEN {Ret(PowerFloor)}
    ELSE {Ret(v) : v \in LogOfRms(s)}

LowCutHz == 20

\* centre frequencies rfftfreq may yield, before the 20 Hz cut
BinValues == {20, 500, 1000, 1500, 2000, 2500}

\* variant: the length check is missing
find_dominant_frequency_fft_unguarded(s, rate) ==
    IF rate = 0 THEN {Raise}
    ELSE LET valid == {v \in BinValues : v > LowCutHz /\ 2 * v <= rate}
         IN  IF valid = {} THEN {Ret(0)}
             ELSE {Ret(v) : v \in valid}

find_dominant_frequency_fft(s, rate) ==
    IF Len(s) < FreqMinSamples THEN {Ret(0)}
    ELSE IF rate = 0 THEN {Raise}            \* 1.0 / sample_rate
    ELSE LET valid == {v \in BinValues : v > LowCutHz /\ 2 * v <= rate}
         IN  IF valid = {} THEN {Ret(0)}
             ELSE {Ret(v) : v \in valid}

\* geometric_mean / arithmetic_mean in hundredths, 0 when arithmetic_mean < epsilon
FlatValues == {0, 50, 60, 70, 80}

calculate_spectral_flatness_fft(s) ==
    IF Len(s) < FlatMinSamples THEN {Ret(0)}
    ELSE {Ret(v) : v \in FlatValues}

-----------------------------------------------------------------------------
(* The records analyze_audio returns                                       *)

Record(f, p, st, status, conf) ==
    [frequency |-> f, power |-> p, surface_tension |-> st,
     noise_status |-> status, confidence |-> conf]

\* the record of the empty-signal exit
EmptyRecord == Record(0, -100, 0, "NOISE", D0_0)

\* variant: the handler reports what was computed so far
FallbackRecordPartial == Record(frequency, power_db, surface_tension, "NOISE", D0_0)

\* the record of the `except Exception` handler
FallbackRecord == Record(0, -100, 0, "NOISE", D0_0)

WeakRecord(p) == Record(0, p, 0, "NOISE", D0_5)

-----------------------------------------------------------------------------
Init ==
    /\ pc = "idle"
    /\ file = BadFile
    /\ handle = "none"
    /\ n_channels = 0 /\ sample_width = 0 /\ framerate = 0 /\ n_frames = 0
    /\ raw_data = <<>> /\ wsamples = <<>>
    /\ samples = <<>> /\ sample_rate = 0
    /\ power_db = 0 /\ frequency = 0 /\ surface_tension = 0
    /\ noise_status = "" /\ confidence = D0_0
    /\ ran = {} /\ failed = "none"
    /\ result = <<>>
    /\ cin = <<0, 0, 0>> /\ cout = <<"", D0_0>>

rwLocals == <<n_channels, sample_width, framerate, n_frames, raw_data, wsamples>>
aaLocals == <<samples, sample_rate, power_db, frequency, surface_tension,
              noise_status, confidence>>
harness == <<cin, cout>>

(* ------------------------------ read_wav ------------------------------ *)

\* variant: the handle is not closed when the block is left
WithExitLeak(h) == h

\* what `with wave.open(...)` leaves of the handle when the block is left
WithExit(h) == IF h = "open" THEN "closed" ELSE h

\* read_wav returns (s, rate) to analyze_audio; its frame is dropped
ReadWavReturns(s, rate, exc) ==
    /\ handle' = WithExit(handle)
    /\ failed' = exc
    /\ samples' = s
    /\ sample_rate' = rate
    /\ n_channels' = 0 /\ sample_width' = 0 /\ framerate' = 0 /\ n_frames' = 0
    /\ raw_data' = <<>> /\ wsamples' = <<>>
    /\ pc' = "aa_len"
    /\ UNCHANGED <<file, power_db, frequency, surface_tension, noise_status,
                   confidence, ran, result, harness>>

\* `except Exception: return np.array([]), 0`, after `op` raised
ReadWavExcept(op) == ReadWavReturns(<<>>, 0, op)

\* analyze_audio(wav_path): enter the try block and call read_wav
AnalyzeAudio(f) ==
    /\ pc = "idle"
    /\ file' = f
    /\ pc' = "rw_open"
    /\ UNCHANGED <<handle, rwLocals, aaLocals, ran, failed, result, harness>>

\* wave.open(filepath, 'rb')
WaveOpen ==
    /\ pc = "rw_open"
    /\ IF file.ok
       THEN /\ handle' = "open"
            /\ pc' = "rw_header"
            /\ UNCHANGED <<file, rwLocals, aaLocals, ran, failed, result, harness>>
       ELSE ReadWavExcept("wave.open")

\* getnchannels(), getsampwidth(), getframerate(), getnframes()
ReadHeader ==
    /\ pc = "rw_header"
    /\ n_channels' = file.nchannels
    /\ sample_width' = file.sampwidth
    /\ framerate' = file.framerate
    /\ n_frames' = file.nframes
    /\ pc' = "rw_frames"
    /\ UNCHANGED <<file, handle, raw_data, wsamples, aaLocals, ran, failed,
                   result, harness>>

\* raw_data = wav.readframes(n_frames), or an I/O error while reading
ReadFrames ==
    /\ pc = "rw_frames"
    /\ \E io_ok \in BOOLEAN :
         IF io_ok
         THEN /\ raw_data' = readframes(file, n_frames)
              /\ pc' = "rw_unpack"
              /\ UNCHANGED <<file, handle, n_channels, sample_width, framerate,
                             n_frames, wsamples, aaLocals, ran, failed, result,
                             harness>>
         ELSE ReadWavExcept("readframes")

\* if sample_width == 2: np.frombuffer(...) else: return np.array([]), 0
Unpack ==
    /\ pc = "rw_unpack"
    /\ IF SupportedWidth(sample_width)
       THEN IF Len(raw_data) % 2 = 0
            THEN /\ wsamples' = frombuffer(raw_data)
                 /\ pc' = "rw_mono"
                 /\ UNCHANGED <<file, handle, n_channels, sample_width, framerate,
                                n_frames, raw_data, aaLocals, ran, failed,
                                result, harness>>
            ELSE ReadWavExcept("frombuffer")   \* ValueError: odd buffer size
       ELSE ReadWavReturns(<<>>, 0, "none")

\* if n_channels == 2: samples = samples[::2]
Downmix ==
    /\ pc = "rw_mono"
    /\ wsamples' = IF n_channels = 2 THEN EveryOther(wsamples) ELSE wsamples
    /\ pc' = "rw_norm"
    /\ UNCHANGED <<file, handle, n_channels, sample_width, framerate, n_frames,
                   raw_data, aaLocals, ran, failed, result, harness>>

\* samples = samples.astype(np.float32) / 32768.0
NormalizeStep ==
    /\ pc = "rw_norm"
    /\ wsamples' = Normalize(wsamples)
    /\ pc' = "rw_ret"
    /\ UNCHANGED <<file, handle, n_channels, sample_width, framerate, n_frames,
                   raw_data, aaLocals, ran, failed, result, harness>>

\* return samples, framerate
ReadWavDone ==
    /\ pc = "rw_ret"
    /\ ReadWavReturns(wsamples, framerate, "none")

(* ---------------------------- analyze_audio --------------------------- *)

\* `return {...}` of analyze_audio
Return(rec) ==
    /\ result' = <<rec>>
    /\ pc' = "done"

\* variant: no handler, the exception leaves analyze_audio
AnalyzeExceptPropagates(stage) ==
    /\ failed' = stage
    /\ pc' = "raised"
    /\ UNCHANGED result

\* `except Exception: return {...}` after `stage` raised in the try block
AnalyzeExcept(stage) ==
    /\ failed' = stage
    /\ Return(FallbackRecord)

\* if len(samples) == 0: return {...}
CheckEmpty ==
    /\ pc = "aa_len"
    /\ IF Len(samples) = 0
       THEN Return(EmptyRecord)
       ELSE pc' = "aa_power" /\ UNCHANGED result
    /\ UNCHANGED <<file, handle, rwLocals, aaLocals, ran, failed, harness>>

\* power_db = calculate_power_db(samples)
CalcPower ==
    /\ pc = "aa_power"
    /\ ran' = ran \cup {"power"}
    /\ \E o \in calculate_power_db(samples) \cup {Raise} :
         IF o = Raise
         THEN AnalyzeExcept("power") /\ UNCHANGED power_db
         ELSE /\ power_db' = o[2]
              /\ pc' = "aa_gate"
              /\ UNCHANGED <<failed, result>>
    /\ UNCHANGED <<file, handle, rwLocals, samples, sample_rate, frequency,
                   surface_tension, noise_status, confidence, harness>>

\* if power_db < -50: return {...}
WeakGate ==
    /\ pc = "aa_gate"
    /\ IF IsWeak(power_db)
       THEN Return(WeakRecord(power_db))
       ELSE pc' = "aa_freq" /\ UNCHANGED result
    /\ UNCHANGED <<file, handle, rwLocals, aaLocals, ran, failed, harness>>

\* frequency = find_dominant_frequency_fft(samples, sample_rate)
FindFrequency ==
    /\ pc = "aa_freq"
    /\ ran' = ran \cup {"frequency"}
    /\ \E o \in find_dominant_frequency_fft(samples, sample_rate) \cup {Raise} :
         IF o = Raise
         THEN AnalyzeExcept("frequency") /\ UNCHANGED frequency
         ELSE /\ frequency' = o[2]
              /\ pc' = "aa_flat"
              /\ UNCHANGED <<failed, result>>
    /\ UNCHANGED <<file, handle, rwLocals, samples, sample_rate, power_db,
                   surface_tension, noise_status, confidence, harness>>

\* surface_tension = calculate_spectral_flatness_fft(samples)
CalcFlatness ==
    /\ pc = "aa_flat"
    /\ ran' = ran \cup {"flatness"}
    /\ \E o \in calculate_spectral_flatness_fft(samples) \cup {Raise} :
         IF o = Raise
         THEN AnalyzeExcept("flatness") /\ UNCHANGED surface_tension
         ELSE /\ surface_tension' = o[2]
              /\ pc' = "aa_classify"
              /\ UNCHANGED <<failed, result>>
    /\ UNCHANGED <<file, handle, rwLocals, samples, sample_rate, power_db,
                   frequency, noise_status, confidence, harness>>

\* noise_status, confidence = classify_noise(frequency, power_db, surface_tension)
Classify ==
    /\ pc = "aa_classify"
    /\ ran' = ran \cup {"classify"}
    /\ \E o \in {Ret(classify_noise(frequency, power_db, surface_tension)), Raise} :
         IF o = Raise
         THEN AnalyzeExcept("classify") /\ UNCHANGED <<noise_status, confidence>>
         ELSE /\ noise_status' = o[2][1]
              /\ confidence' = o[2][2]
              /\ pc' = "aa_ret"
              /\ UNCHANGED <<failed, result>>
    /\ UNCHANGED <<file, handle, rwLocals, samples, sample_rate, power_db,
                   frequency, surface_tension, harness>>

\* return {"frequency": float(frequency), ...}
BuildResult ==
    /\ pc = "aa_ret"
    /\ \E built \in BOOLEAN :
         IF built
         THEN /\ Return(Record(frequency, power_db, surface_tension,
                               noise_status, confidence))
              /\ UNCHANGED failed
         ELSE AnalyzeExcept("record")
    /\ UNCHANGED <<file, handle, rwLocals, aaLocals, ran, harness>>

(* -------------------- classify_noise called directly ------------------ *)

ClassifyFreqs == {0, 500, 1000, 1001, 1500, 2000, 2001, 2500}
ClassifyPowers == {-100, -50, -41, -40, -39, -30, -26, -25, -24, -20, -16, -15, -14, 0}
ClassifyFlats == {0, 20, 50, 51, 60, 70, 71, 80, 100}

ClassifyStandalone ==
    /\ pc = "idle"
    /\ \E f \in ClassifyFreqs, p \in ClassifyPowers, st \in ClassifyFlats :
         /\ cin' = <<f, p, st>>
         /\ cout' = classify_noise(f, p, st)
    /\ pc' = "cdone"
    /\ UNCHANGED <<file, handle, rwLocals, aaLocals, ran, failed, result>>

-----------------------------------------------------------------------------
\* one step of a call in progress
Step ==
    \/ WaveOpen
    \/ ReadHeader
    \/ ReadFrames
    \/ Unpack
    \/ Downmix
    \/ NormalizeStep
    \/ ReadWavDone
    \/ CheckEmpty
    \/ CalcPower
    \/ WeakGate
    \/ FindFrequency
    \/ CalcFlatness
    \/ Classify
    \/ BuildResult

Next ==
    \/ \E f \in Files : AnalyzeAudio(f)
    \/ Step
    \/ ClassifyStandalone

Spec == Init /\ [][Next]_vars

-----------------------------------------------------------------------------
(* Properties                                                              *)

ReadWavLocs == {"rw_open", "rw_header", "rw_frames", "rw_unpack", "rw_mono",
                "rw_norm", "rw_ret"}
AnalyzeLocs == {"aa_len", "aa_power", "aa_gate", "aa_freq", "aa_flat",
                "aa_classify", "aa_ret"}
Locs == {"idle", "done", "cdone"} \cup ReadWavLocs \cup AnalyzeLocs

Stages == {"power", "frequency", "flatness", "classify", "record"}
Keys == {"frequency", "power", "surface_tension", "noise_status", "confidence"}
Labels == {"CRACK", "NORMAL", "NOISE"}

D1_0 == Dbl(134217728, 0)            \* 1.0

\* (0.0, -100.0, 0.0, "NOISE", 0.0)
SentinelRecord ==
    [frequency |-> 0, power |-> -100, surface_tension |-> 0,
     noise_status |-> "NOISE", confidence |-> <<0, 0>>]

\* analyze_audio has returned normally with every stage it ran completed
Completed == pc = "done" /\ failed \notin Stages

Pair(r) == <<r.noise_status, r.confidence>>

CompleteRecord ==
    /\ pc \in Locs
    /\ pc # "done" => result = <<>>
    /\ pc = "done" =>
         /\ Len(result) = 1
         /\ DOMAIN result[1] = Keys
         /\ result[1].noise_status \in Labels
         /\ DGeq(result[1].confidence, <<0, 0>>)
         /\ DGeq(D1_0, result[1].confidence)

\* the statements of a call in their order of execution
Rank(loc) ==
    CASE loc = "idle" -> 0
      [] loc = "rw_open" -> 1
      [] loc = "rw_header" -> 2
      [] loc = "rw_frames" -> 3
      [] loc = "rw_unpack" -> 4
      [] loc = "rw_mono" -> 5
      [] loc = "rw_norm" -> 6
      [] loc = "rw_ret" -> 7
      [] loc = "aa_len" -> 8
      [] loc = "aa_power" -> 9
      [] loc = "aa_gate" -> 10
      [] loc = "aa_freq" -> 11
      [] loc = "aa_flat" -> 12
      [] loc = "aa_classify" -> 13
      [] loc = "aa_ret" -> 14
      [] loc \in {"done", "cdone"} -> 15

C3_SentinelAndEmptySignal ==
    /\ (pc \in AnalyzeLocs \cup {"done"}
          /\ (~file.ok \/ file.sampwidth # 2
                \/ failed \in {"wave.open", "readframes", "frombuffer"}))
         => (samples = <<>> /\ sample_rate = 0)
    /\ (pc \in AnalyzeLocs /\ Len(samples) = 0) => pc = "aa_len"
    /\ (pc = "done" /\ Len(samples) = 0)
         => (result = <<SentinelRecord>> /\ ran = {})

C3_Witness ==
    /\ pc = "done"
    /\ file.ok /\ file.sampwidth = 1 /\ Len(file.data) > 0
    /\ samples = <<>> /\ sample_rate = 0
    /\ result = <<SentinelRecord>>

\* C4: a non-empty clip whose computed power is below -50 dB returns
\* (0.0, power_db, 0.0, NOISE, 0.5) with only the power estimator run; a
\* non-empty all-zero clip has power -100.0 and confidence 0.5; a power of
\* exactly -50 goes on to estimation and classification.
C4_WeakSignalGate ==
    /\ (Completed /\ Len(samples) > 0 /\ power_db < -50)
         => /\ result = <<[frequency |-> 0, power |-> power_db,
                           surface_tension |-> 0, noise_status |-> "NOISE",
                           confidence |-> D0_5]>>
            /\ ran = {"power"}
    /\ (Completed /\ Len(samples) > 0 /\ AllZero(samples))
         => (result[1].power = -100 /\ result[1].confidence = D0_5)
    /\ (Completed /\ Len(samples) > 0 /\ power_db = -50)
         => /\ ran = {"power", "frequency", "flatness", "classify"}
            /\ Pair(result[1]) = classify_noise(frequency, -50, surface_tension)

C4_Witness ==
    /\ Completed
    /\ Len(samples) > 0 /\ AllZero(samples)
    /\ power_db = -100
    /\ result[1].confidence = D0_5

\* The scored-variant rule, computed on exact hundredths
RefFrequencyPoints(f) == IF f > 2000 THEN 30 ELSE IF f > 1000 THEN 15 ELSE 0
RefFlatnessPoints(st) == IF st > 70 THEN 40 ELSE IF st > 50 THEN 20 ELSE 0
RefPowerPoints(p) == IF p > -15 THEN 30 ELSE IF p > -25 THEN 15 ELSE 0

RefPoints(f, p, st) ==
    RefFrequencyPoints(f) + RefFlatnessPoints(st) + RefPowerPoints(p)

\* the double written as the decimal n/100, for the score components
RefDouble(n) ==
    CASE n = 0 -> <<0, 0>>
      [] n = 15 -> <<20132659, 53687091>>
      [] n = 20 -> <<26843545, 161061274>>
      [] n = 30 -> <<40265318, 107374182>>
      [] n = 40 -> <<53687091, 53687092>>

\* [frequency term] + [flatness term] + [power term], added left to right
RefCrackScore(f, p, st) ==
    DAdd(DAdd(RefDouble(RefFrequencyPoints(f)), RefDouble(RefFlatnessPoints(st))),
         RefDouble(RefPowerPoints(p)))

RefClassify(f, p, st) ==
    IF p < -40 THEN <<"NOISE", <<80530636, 214748364>>>>                  \* 0.6
    ELSE IF RefPoints(f, p, st) >= 60
         THEN <<"CRACK", IF DLess(RefCrackScore(f, p, st), <<127506841, 161061272>>)
                         THEN RefCrackScore(f, p, st)
                         ELSE <<127506841, 161061272>>>>                  \* 0.95
    ELSE IF RefPoints(f, p, st) >= 30
         THEN <<"NORMAL", <<87241523, 53687092>>>>                        \* 0.65
    ELSE <<"NORMAL", <<107374182, 107374184>>>>                           \* 0.8

\* C5: classify_noise equals the scored-variant rule on every input, with
\* strict comparisons at each threshold, score 0.6 giving CRACK and score 0.3
\* giving (NORMAL, 0.65); (2500, -10, 0.8) gives (CRACK, 0.95) and
\* (500, -30, 0.2) gives (NORMAL, 0.8).
C5_ClassifierMatchesRule ==
    /\ pc = "cdone" => cout = RefClassify(cin[1], cin[2], cin[3])
    /\ (pc = "cdone" /\ cin = <<2500, -10, 80>>)
         => cout = <<"CRACK", <<127506841, 161061272>>>>
    /\ (pc = "cdone" /\ cin = <<500, -30, 20>>)
         => cout = <<"NORMAL", <<107374182, 107374184>>>>
    /\ (pc = "cdone" /\ cin = <<2000, -15, 70>>)    \* 0.15 + 0.2 + 0.15
         => cout = <<"NORMAL", <<87241523, 53687092>>>>
    /\ (pc = "cdone" /\ cin = <<1000, -25, 50>>)
         => cout = <<"NORMAL", <<107374182, 107374184>>>>
    /\ (pc = "cdone" /\ cin[2] = -40) => cout[1] # "NOISE"
    /\ (pc \in {"aa_ret", "done"} /\ "classify" \in ran /\ failed # "classify")
         => <<noise_status, confidence>>
              = RefClassify(frequency, power_db, surface_tension)

\* frequency just above 2000 and power just above -15: crack_score is exactly 0.6
C5_Witness ==
    /\ pc = "cdone"
    /\ cin = <<2001, -14, 50>>
    /\ cout = <<"CRACK", <<80530636, 214748364>>>>

\* C6: for a 16-bit file whose declared frames are all present, read_wav
\* returns the left channel of a stereo file (the samples at even interleaved
\* indices), or every sample of a mono file, each divided by 32768, in order,
\* one per frame, with the file's frame rate.
C6_LeftChannelDownmix ==
    (/\ pc = "aa_len"
     /\ file.ok /\ file.sampwidth = 2 /\ file.nchannels \in {1, 2}
     /\ failed = "none"
     /\ Len(file.data) >= file.nframes * file.nchannels * 2)
    => /\ Len(samples) = file.nframes
       /\ \A i \in 1..file.nframes :
            samples[i] = <<file.pcm[file.nchannels * (i - 1) + 1], 32768>>
       /\ sample_rate = file.framerate

C6_Witness ==
    /\ pc = "aa_len"
    /\ file.ok /\ file.sampwidth = 2 /\ file.nchannels = 2
    /\ failed = "none"
    /\ Len(samples) >= 2
    /\ file.pcm[1] = -32768 /\ file.pcm[2] = 2049
    /\ samples[2] = <<-32768, 32768>>

\* C7: once read_wav has returned, by any path, the handle it opened is
\* closed: no state after the call holds an open handle.
C7_HandleClosedOnReturn ==
    /\ pc \notin ReadWavLocs => handle # "open"
    /\ pc \in AnalyzeLocs \cup {"done"} => (handle = "closed" <=> file.ok)

C7_Witness ==
    /\ pc = "aa_len"
    /\ failed = "frombuffer"
    /\ handle = "closed"

C9_ShortClipNeverCrack ==
    /\ (pc \in AnalyzeLocs \cup {"done"} /\ Len(samples) < 100)
         => /\ find_dominant_frequency_fft(samples, sample_rate) = {<<"ret", 0>>}
            /\ calculate_spectral_flatness_fft(samples) = {<<"ret", 0>>}
    /\ (Completed /\ Len(samples) >= 1 /\ Len(samples) <= 99 /\ power_db >= -50)
         => /\ result[1].frequency = 0
            /\ result[1].surface_tension = 0
            /\ result[1].power = power_db
            /\ result[1].noise_status # "CRACK"
            /\ Pair(result[1]) =
                  IF power_db < -40 THEN <<"NOISE", <<80530636, 214748364>>>>
                  ELSE IF power_db <= -15 THEN <<"NORMAL", <<107374182, 107374184>>>>
                  ELSE <<"NORMAL", <<87241523, 53687092>>>>

C9_Witness ==
    /\ Completed
    /\ Len(samples) = 99
    /\ sample_rate = 8000
    /\ power_db = 0
    /\ Pair(result[1]) = <<"NORMAL", <<87241523, 53687092>>>>

CrackConfidencesDecimal ==
    { <<80530636, 214748364>>,     \* 0.6
      <<87241523, 53687092>>,      \* 0.65
      <<93952409, 161061272>>,     \* 0.7
      <<107374182, 107374184>>,    \* 0.8
      <<114085068, 214748364>>,    \* 0.85
      <<127506841, 161061272>> }   \* 0.95

\* the sums the double additions can also produce
CrackConfidencesRounded ==
    { <<87241523, 53687088>>,      \* 0.6499999999999999 = 0.15 + 0.2 + 0.3
      <<93952409, 161061276>>,     \* 0.7000000000000001 = 0.15 + 0.4 + 0.15
      <<114085068, 214748368>> }   \* 0.8500000000000001 = 0.15 + 0.4 + 0.3

ScoreComponents(f, p, st) ==
    (IF f > 1000 THEN 1 ELSE 0) + (IF st > 50 THEN 1 ELSE 0)
    + (IF p > -25 THEN 1 ELSE 0)

\* the pairs allowed with CRACK confidences drawn from `cs`
ClassifierPairs(cs) ==
    { <<"NOISE", <<80530636, 214748364>>>>, <<"NORMAL", <<87241523, 53687092>>>>,
      <<"NORMAL", <<107374182, 107374184>>>> }
    \cup { <<"CRACK", c>> : c \in cs }

PipelineOnlyPairs == { <<"NOISE", <<0, 0>>>>, <<"NOISE", <<67108864, 0>>>> }

PairsWithin(cs) ==
    /\ pc = "cdone" => cout \in ClassifierPairs(cs)
    /\ pc = "done" => Pair(result[1]) \in ClassifierPairs(cs) \cup PipelineOnlyPairs
    /\ (pc = "cdone" /\ cout[1] = "CRACK")
         => (cin[2] >= -40 /\ ScoreComponents(cin[1], cin[2], cin[3]) >= 2)
    /\ (pc = "done" /\ result[1].noise_status = "CRACK")
         => (power_db >= -40
             /\ ScoreComponents(frequency, power_db, surface_tension) >= 2)
    /\ (pc = "done" /\ result[1].confidence = <<0, 0>>)
         => (Len(samples) = 0 \/ failed \in Stages)

\* C10 as stated: CRACK confidences are among 0.6, 0.65, 0.7, 0.8, 0.85, 0.95.
C10_DecimalConfidences == PairsWithin(CrackConfidencesDecimal)

\* C10 amended: the (status, confidence) pairs lie in the fixed finite set
\* whose CRACK confidences are the doubles 0.6, 0.6499999999999999, 0.65, 0.7,
\* 0.7000000000000001, 0.8, 0.85, 0.8500000000000001 and 0.95; CRACK needs
\* power >= -40 and two non-zero score components; confidence 0.0 comes only
\* from the empty-signal or failure record.
C10_FinitePairs ==
    PairsWithin(CrackConfidencesDecimal \cup CrackConfidencesRounded)

C10_Witness ==
    /\ pc = "done"
    /\ frequency = 1500 /\ power_db = -10 /\ surface_tension = 60
    /\ Pair(result[1]) = <<"CRACK", <<87241523, 53687088>>>>

====
